---- MODULE Spec2Model ----
(***************************************************************************)
(* A model of charmcraft/commands/store/client.py: the user-agent builder, *)
(* the Client facade over the craft_store session (request, request_json)  *)
(* and the streaming upload push_file with its progress callback.          *)
(*                                                                         *)
(* Text is modelled as sequences: an environment variable name is a        *)
(* sequence of characters, a message or a user agent is a sequence of the  *)
(* pieces the code formats it from.  Python values are modelled by their   *)
(* repr ("True", "'abc123'").                                              *)
(***************************************************************************)
EXTENDS Integers, Sequences, FiniteSets, TLC

VARIABLES
    env,        \* os.environ: a function from variable names to values
    client,     \* the constructed Client: storage_base_url and the session's user agent
    pc,         \* position of the call in progress
    op,         \* the operation in progress
    net,        \* what the collaborator (session request / HTTPClient.post) did
    sent,       \* the request handed to the network by the call in progress
    outcome,    \* how the call ended: return or the exception raised
    retval,     \* the value returned
    fh,         \* push_file: the file handle ("none", "open", "closed")
    monitor,    \* push_file: the MultipartEncoderMonitor (bytes_read, len)
    progress,   \* push_file: the last invocation of _progress and what it did
    result,     \* push_file: the parsed storage response
    reads,      \* push_file: the keys of result that were subscripted
    posts       \* push_file: POSTs issued by the call in progress

vars == <<env, client, pc, op, net, sent, outcome, retval, fh, monitor, progress,
          result, reads, posts>>

(***************************************************************************)
(* Bounds of the model.                                                    *)
(***************************************************************************)
MaxEnvVars == 2     \* variables set in the environment at one time
MaxLen == 3         \* largest monitor.len
MaxChunk == 2       \* largest read delivered to the monitor at once
MaxOvershoot == 1   \* how far bytes_read may pass monitor.len

(***************************************************************************)
(* The environment and build_user_agent.                                   *)
(***************************************************************************)
TRAVIS == <<"T", "R", "A", "V", "I", "S">>

AUTOPKGTEST_TMP ==
    <<"A", "U", "T", "O", "P", "K", "G", "T", "E", "S", "T", "_", "T", "M", "P">>

TESTING_ENV_PREFIXES == <<TRAVIS, AUTOPKGTEST_TMP>>

\* Variable names the environment may hold: a prefix itself, a prefix followed
\* by more, a prefix in the middle, a cut-short prefix.
EnvNames ==
    { TRAVIS,
      TRAVIS \o <<"_", "J">>,
      AUTOPKGTEST_TMP,
      <<"X", "_">> \o TRAVIS,
      <<"T", "R", "A", "V", "I">> }

EnvValues == { <<"1">>, TRAVIS }

Environments ==
    UNION { [S -> EnvValues] : S \in { T \in SUBSET EnvNames : Cardinality(T) <= MaxEnvVars } }

\* A variant of StartsWith that accepts the prefix anywhere in the name.
StartsWith_anywhere(key, prefix) ==
    \E i \in 1..Len(key) :
        /\ i + Len(prefix) - 1 <= Len(key)
        /\ SubSeq(key, i, i + Len(prefix) - 1) = prefix

\* str.startswith
StartsWith(key, prefix) ==
    /\ Len(key) >= Len(prefix)
    /\ SubSeq(key, 1, Len(prefix)) = prefix

\* A variant of IsTesting that also scans the variables' values.
IsTesting_values(e) ==
    \E i \in 1..Len(TESTING_ENV_PREFIXES) : \E k \in DOMAIN e :
        StartsWith(k, TESTING_ENV_PREFIXES[i]) \/ StartsWith(e[k], TESTING_ENV_PREFIXES[i])

\* any(key.startswith(prefix) for prefix in TESTING_ENV_PREFIXES for key in os.environ.keys())
IsTesting(e) ==
    \E i \in 1..Len(TESTING_ENV_PREFIXES) : \E k \in DOMAIN e :
        StartsWith(k, TESTING_ENV_PREFIXES[i])

\* "{0.system}/{0.release} ({0.machine})".format(utils.get_os_platform())
OsPlatform == <<"system", "/", "release", " (", "machine", ")">>

\* "charmcraft/{}{}{} python/{}".format(__version__, testing, os_platform, python_version)
BuildUserAgent(e) ==
    <<"charmcraft/", "__version__">>
        \o <<IF IsTesting(e) THEN " (testing) " ELSE " ">>
        \o OsPlatform
        \o <<" python/", "python_version">>

(***************************************************************************)
(* Values exchanged with the collaborators.                                *)
(***************************************************************************)
Keys == {"successful", "upload_id"}

KeyOrder == <<"successful", "upload_id">>

EmptyObj == [k \in {} |-> ""]

\* JSON texts a field of the storage response may carry.
JsonTokens(k) ==
    IF k = "successful" THEN {"true", "false"} ELSE {"\"abc123\"", "\"xyz\""}

JsonObjects ==
    { o \in UNION { [S -> UNION { JsonTokens(k) : k \in Keys }] : S \in SUBSET Keys } :
        \A k \in DOMAIN o : o[k] \in JsonTokens(k) }

\* A response body: text that parses as the JSON object obj, or text that does not parse.
NotJson == [valid |-> FALSE, obj |-> EmptyObj]

Bodies == {NotJson} \cup { [valid |-> TRUE, obj |-> o] : o \in JsonObjects }

StatusCodes == {200, 404}

\* The decoded Python value of a JSON text, by its repr.
PyValue(tok) ==
    CASE tok = "true" -> "True"
      [] tok = "false" -> "False"
      [] tok = "null" -> "None"
      [] tok = "\"abc123\"" -> "'abc123'"
      [] tok = "\"xyz\"" -> "'xyz'"
      [] OTHER -> "''"

\* response.json() on a body that parses
JsonLoads(body) == [k \in DOMAIN body.obj |-> PyValue(body.obj[k])]

\* Python truth value
Truthy(v) == v \notin {"False", "None", "''", "0"}

RECURSIVE ReprItems(_, _)
ReprItems(d, i) ==
    IF i > Len(KeyOrder) THEN <<>>
    ELSE (IF KeyOrder[i] \in DOMAIN d
          THEN <<"'" \o KeyOrder[i] \o "'", ": ", d[KeyOrder[i]], ", ">>
          ELSE <<>>) \o ReprItems(d, i + 1)

\* "{}".format(result) of a dict
ReprDict(d) == <<"{">> \o ReprItems(d, 1) \o <<"}">>

\* Exceptions the collaborators raise, and the classes each one is an instance of.
ExcTypes == {"StoreClientError", "StoreClientErrorSubclass", "ValueError"}

ExcBases(t) ==
    CASE t = "StoreClientErrorSubclass" -> {"StoreClientErrorSubclass", "StoreClientError"}
      [] OTHER -> {t}

IsInstance(t, cls) == cls \in ExcBases(t)

ExcMessages == {"connection refused", "401 unauthorized"}

NoNet == [k |-> "none", type |-> "", msg |-> "", status_code |-> 0, body |-> NotJson]

NetResponse(code, body) ==
    [k |-> "response", type |-> "", msg |-> "", status_code |-> code, body |-> body]

NetRaise(t, m) == [k |-> "raise", type |-> t, msg |-> m, status_code |-> 0, body |-> NotJson]

\* What super().request / HTTPClient.post may do.
NetOutcomes ==
    { NetResponse(c, b) : c \in StatusCodes, b \in Bodies }
        \cup { NetRaise(t, m) : t \in ExcTypes, m \in ExcMessages }

NoneVal == [t |-> "None", status_code |-> 0, body |-> NotJson, d |-> EmptyObj, s |-> ""]

ResponseVal(n) ==
    [t |-> "Response", status_code |-> n.status_code, body |-> n.body, d |-> EmptyObj, s |-> ""]

DictVal(d) == [t |-> "dict", status_code |-> 0, body |-> NotJson, d |-> d, s |-> ""]

StrVal(s) == [t |-> "str", status_code |-> 0, body |-> NotJson, d |-> EmptyObj, s |-> s]

NoOutcome == [kind |-> "none", type |-> "", msg |-> <<>>]

Return == [kind |-> "return", type |-> "", msg |-> <<>>]

Raise(t, m) == [kind |-> "raise", type |-> t, msg |-> m]

NoSent == [method |-> "", url |-> <<>>, user_agent |-> <<>>, content_type |-> "", accept |-> ""]

NoMonitor == [bytes_read |-> 0, len |-> 0]

NoProgress == [called |-> FALSE, bytes_read |-> 0, len |-> 0, kind |-> "none", pct |-> 0]

(***************************************************************************)
(* Client.__init__                                                         *)
(***************************************************************************)
ApiUrls == { <<"a">>, <<"a", "/">> }

StorageUrls == { <<"s">>, <<"s", "/">>, <<"t", "/", "/">> }

RECURSIVE RStrip(_)
\* str.rstrip("/")
RStrip(u) ==
    IF Len(u) > 0 /\ u[Len(u)] = "/" THEN RStrip(SubSeq(u, 1, Len(u) - 1)) ELSE u

NewClient(e, api_base_url, storage_base_url) ==
    [ api_base_url |-> RStrip(api_base_url),
      storage_base_url |-> RStrip(storage_base_url),
      user_agent |-> BuildUserAgent(e) ]

(***************************************************************************)
(* Client.request and Client.request_json, as functions of what the        *)
(* session's request did.                                                  *)
(***************************************************************************)
\* A variant of ClientRequest whose except clause catches every exception.
ClientRequest_catchall(n) ==
    IF n.k = "raise"
    THEN [outcome |-> Raise("CommandError", <<n.msg>>), retval |-> NoneVal]
    ELSE [outcome |-> Return, retval |-> ResponseVal(n)]

\* try: return super().request(...)
\* except craft_store.errors.StoreClientError as store_error:
\*     raise CommandError(str(store_error)) from store_error
ClientRequest(n) ==
    IF n.k = "raise"
    THEN IF IsInstance(n.type, "StoreClientError")
         THEN [outcome |-> Raise("CommandError", <<n.msg>>), retval |-> NoneVal]
         ELSE [outcome |-> Raise(n.type, <<n.msg>>), retval |-> NoneVal]
    ELSE [outcome |-> Return, retval |-> ResponseVal(n)]

\* A variant of ClientRequestJson that lets the parse error through.
ClientRequestJson_leak(n) ==
    LET r == ClientRequest(n) IN
    IF r.outcome.kind = "raise" THEN r
    ELSE IF ~r.retval.body.valid
         THEN [outcome |-> Raise("JSONDecodeError", <<"Expecting value">>), retval |-> NoneVal]
         ELSE [outcome |-> Return, retval |-> DictVal(JsonLoads(r.retval.body))]

\* response = self.request(...); return response.json(), a JSONDecodeError
\* becoming CommandError(f"Could not retrieve json response ({status_code} from request")
ClientRequestJson(n) ==
    LET r == ClientRequest(n) IN
    IF r.outcome.kind = "raise" THEN r
    ELSE IF ~r.retval.body.valid
         THEN [ outcome |-> Raise("CommandError",
                                  << "Could not retrieve json response (",
                                     ToString(r.retval.status_code),
                                     " from request" >>),
                retval |-> NoneVal ]
         ELSE [outcome |-> Return, retval |-> DictVal(JsonLoads(r.retval.body))]

(***************************************************************************)
(* push_file: the progress callback and the handling of the response.      *)
(***************************************************************************)
\* "{:.2f}".format(100 * b / len) as hundredths of a percent: the quotient
\* rounded to two decimals, a tie going to the even neighbour.
Round2(b, len) ==
    LET q == (10000 * b) \div len
        r == (10000 * b) % len
    IN  IF 2 * r < len THEN q
        ELSE IF 2 * r > len THEN q + 1
        ELSE IF q % 2 = 0 THEN q ELSE q + 1

\* def _progress(monitor): what one invocation does
Progress(m) ==
    IF m.bytes_read <= m.len
    THEN IF m.len = 0
         THEN [called |-> TRUE, bytes_read |-> m.bytes_read, len |-> m.len,
               kind |-> "raise", pct |-> 0]
         ELSE [called |-> TRUE, bytes_read |-> m.bytes_read, len |-> m.len,
               kind |-> "print", pct |-> Round2(m.bytes_read, m.len)]
    ELSE [called |-> TRUE, bytes_read |-> m.bytes_read, len |-> m.len,
          kind |-> "none", pct |-> 0]

\* A variant of PushResult that reads upload_id before looking at successful.
PushResult_eager(res) ==
    IF "upload_id" \notin DOMAIN res
    THEN [outcome |-> Raise("KeyError", <<"'upload_id'">>), retval |-> NoneVal,
          reads |-> {"upload_id"}]
    ELSE IF "successful" \notin DOMAIN res
    THEN [outcome |-> Raise("KeyError", <<"'successful'">>), retval |-> NoneVal,
          reads |-> {"upload_id", "successful"}]
    ELSE IF ~Truthy(res["successful"])
    THEN [outcome |-> Raise("CommandError",
                            <<"Server error while pushing file: ">> \o ReprDict(res)),
          retval |-> NoneVal, reads |-> {"upload_id", "successful"}]
    ELSE [outcome |-> Return, retval |-> StrVal(res["upload_id"]),
          reads |-> {"upload_id", "successful"}]

\* A variant of PushResult that returns the whole response.
PushResult_whole(res) ==
    IF "successful" \notin DOMAIN res
    THEN [outcome |-> Raise("KeyError", <<"'successful'">>), retval |-> NoneVal,
          reads |-> {"successful"}]
    ELSE IF ~Truthy(res["successful"])
    THEN [outcome |-> Raise("CommandError",
                            <<"Server error while pushing file: ">> \o ReprDict(res)),
          retval |-> NoneVal, reads |-> {"successful"}]
    ELSE [outcome |-> Return, retval |-> DictVal(res), reads |-> {"successful"}]

\* result = response
\* if not result["successful"]: raise CommandError("Server error while pushing file: {}"...)
\* upload_id = result["upload_id"]; return upload_id
PushResult(res) ==
    IF "successful" \notin DOMAIN res
    THEN [outcome |-> Raise("KeyError", <<"'successful'">>), retval |-> NoneVal,
          reads |-> {"successful"}]
    ELSE IF ~Truthy(res["successful"])
    THEN [outcome |-> Raise("CommandError",
                            <<"Server error while pushing file: ">> \o ReprDict(res)),
          retval |-> NoneVal, reads |-> {"successful"}]
    ELSE IF "upload_id" \notin DOMAIN res
    THEN [outcome |-> Raise("KeyError", <<"'upload_id'">>), retval |-> NoneVal,
          reads |-> {"successful", "upload_id"}]
    ELSE [outcome |-> Return, retval |-> StrVal(res["upload_id"]),
          reads |-> {"successful", "upload_id"}]

\* A variant of WithExit that closes the file only when the block ends normally.
WithExit_leak(raised) == IF raised THEN "open" ELSE "closed"

\* The state of fh when control leaves `with filepath.open("rb") as fh:`
WithExit(raised) == "closed"

\* A variant of StoragePushUserAgent that reuses the session's user agent.
StoragePushUserAgent_cached(e, c) == c.user_agent

\* craft_store.HTTPClient(user_agent=build_user_agent()) in _storage_push
StoragePushUserAgent(e, c) == BuildUserAgent(e)

\* url and headers of _storage_push
StoragePushRequest(e, c) ==
    [ method |-> "POST",
      url |-> c.storage_base_url \o <<"/unscanned-upload/">>,
      user_agent |-> StoragePushUserAgent(e, c),
      content_type |-> "monitor.content_type",
      accept |-> "application/json" ]

(***************************************************************************)
(* The state machine.                                                      *)
(***************************************************************************)
NoCall ==
    /\ net = NoNet /\ sent = NoSent /\ outcome = NoOutcome /\ retval = NoneVal
    /\ fh = "none" /\ monitor = NoMonitor /\ progress = NoProgress
    /\ result = EmptyObj /\ reads = {} /\ posts = 0

Init ==
    /\ env = [k \in {} |-> <<>>]
    /\ \E a \in ApiUrls, u \in StorageUrls : client = NewClient(env, a, u)
    /\ pc = "idle"
    /\ op = "none"
    /\ NoCall

\* os.environ[k] = v, between calls
SetEnv ==
    /\ pc = "idle"
    /\ \E k \in EnvNames, v \in EnvValues :
        /\ Cardinality(DOMAIN env \cup {k}) <= MaxEnvVars
        /\ env' = [x \in DOMAIN env \cup {k} |-> IF x = k THEN v ELSE env[x]]
    /\ UNCHANGED <<client, pc, op, net, sent, outcome, retval, fh, monitor, progress,
                   result, reads, posts>>

\* del os.environ[k], between calls
DelEnv ==
    /\ pc = "idle"
    /\ \E k \in DOMAIN env : env' = [x \in DOMAIN env \ {k} |-> env[x]]
    /\ UNCHANGED <<client, pc, op, net, sent, outcome, retval, fh, monitor, progress,
                   result, reads, posts>>

\* Client(api_base_url, storage_base_url)
ClientInit ==
    /\ pc = "idle"
    /\ \E a \in ApiUrls, u \in StorageUrls : client' = NewClient(env, a, u)
    /\ UNCHANGED <<env, pc, op, net, sent, outcome, retval, fh, monitor, progress,
                   result, reads, posts>>

\* The request the session sends for Client.request(method, url)
SessionRequest(c, method, url) ==
    [method |-> method, url |-> url, user_agent |-> c.user_agent,
     content_type |-> "", accept |-> ""]

\* Client.request(method, url)
Request ==
    /\ pc = "idle"
    /\ \E method \in {"GET", "POST"}, n \in NetOutcomes :
        LET r == ClientRequest(n) IN
        /\ sent' = SessionRequest(client, method, <<"/v1/charm">>)
        /\ net' = n
        /\ outcome' = r.outcome
        /\ retval' = r.retval
    /\ op' = "request"
    /\ pc' = "done"
    /\ UNCHANGED <<env, client, fh, monitor, progress, result, reads, posts>>

\* Client.request_json(method, url)
RequestJson ==
    /\ pc = "idle"
    /\ \E method \in {"GET", "POST"}, n \in NetOutcomes :
        LET r == ClientRequestJson(n) IN
        /\ sent' = SessionRequest(client, method, <<"/v1/charm">>)
        /\ net' = n
        /\ outcome' = r.outcome
        /\ retval' = r.retval
    /\ op' = "request_json"
    /\ pc' = "done"
    /\ UNCHANGED <<env, client, fh, monitor, progress, result, reads, posts>>

\* push_file(filepath): filepath.open("rb") succeeds or raises
PushFileOpen ==
    /\ pc = "idle"
    /\ op' = "push_file"
    /\ \/ /\ fh' = "open"
          /\ pc' = "opened"
          /\ UNCHANGED outcome
       \/ /\ \E t \in {"FileNotFoundError", "PermissionError"} :
                outcome' = Raise(t, <<"filepath">>)
          /\ pc' = "done"
          /\ UNCHANGED fh
    /\ UNCHANGED <<env, client, net, sent, retval, monitor, progress, result, reads, posts>>

\* push_file: the encoder and the monitor are built and _storage_push starts
\* the POST, or building the encoder raises
PushFileEncode ==
    /\ pc = "opened"
    /\ \/ /\ \E l \in 0..MaxLen : monitor' = [bytes_read |-> 0, len |-> l]
          /\ sent' = StoragePushRequest(env, client)
          /\ posts' = posts + 1
          /\ pc' = "streaming"
          /\ UNCHANGED <<fh, outcome>>
       \/ /\ outcome' = Raise("OSError", <<"encoder">>)
          /\ fh' = WithExit(TRUE)
          /\ pc' = "done"
          /\ UNCHANGED <<monitor, sent, posts>>
    /\ UNCHANGED <<env, client, op, net, retval, progress, result, reads>>

\* push_file: the transport reads a chunk from the monitor, which calls _progress
StreamChunk ==
    /\ pc = "streaming"
    /\ \E n \in 0..MaxChunk :
        LET m == [monitor EXCEPT !.bytes_read = @ + n]
            p == Progress(m)
        IN  /\ m.bytes_read <= m.len + MaxOvershoot
            /\ monitor' = m
            /\ progress' = p
            /\ IF p.kind = "raise"
               THEN /\ outcome' = Raise("ZeroDivisionError", <<"division by zero">>)
                    /\ fh' = WithExit(TRUE)
                    /\ pc' = "done"
               ELSE UNCHANGED <<outcome, fh, pc>>
    /\ UNCHANGED <<env, client, op, net, sent, retval, result, reads, posts>>

\* A variant of PostFail that issues the POST again after a failure.
PostFail_retry ==
    /\ pc = "streaming"
    /\ posts <= 1
    /\ \E t \in ExcTypes, m \in ExcMessages : net' = NetRaise(t, m)
    /\ posts' = posts + 1
    /\ monitor' = [monitor EXCEPT !.bytes_read = 0]
    /\ UNCHANGED <<env, client, pc, op, sent, outcome, retval, fh, progress, result, reads>>

\* push_file: client.post raises; nothing in push_file or _storage_push catches it
PostFail ==
    /\ pc = "streaming"
    /\ \E t \in ExcTypes, m \in ExcMessages :
        /\ net' = NetRaise(t, m)
        /\ outcome' = Raise(t, <<m>>)
    /\ fh' = WithExit(TRUE)
    /\ pc' = "done"
    /\ UNCHANGED <<env, client, op, sent, retval, monitor, progress, result, reads, posts>>

\* push_file: client.post returns once the body was read, and .json() parses it
PostResponse ==
    /\ pc = "streaming"
    /\ monitor.bytes_read >= monitor.len
    /\ \E c \in StatusCodes, b \in Bodies :
        /\ net' = NetResponse(c, b)
        /\ IF b.valid
           THEN /\ result' = JsonLoads(b)
                /\ fh' = WithExit(FALSE)
                /\ pc' = "parsed"
                /\ UNCHANGED outcome
           ELSE /\ outcome' = Raise("JSONDecodeError", <<"Expecting value">>)
                /\ fh' = WithExit(TRUE)
                /\ pc' = "done"
                /\ UNCHANGED result
    /\ UNCHANGED <<env, client, op, sent, retval, monitor, progress, reads, posts>>

\* push_file: after the with block, the result is checked
PushFileResult ==
    /\ pc = "parsed"
    /\ LET r == PushResult(result) IN
        /\ outcome' = r.outcome
        /\ retval' = r.retval
        /\ reads' = r.reads
    /\ pc' = "done"
    /\ UNCHANGED <<env, client, op, net, sent, fh, monitor, progress, result, posts>>

\* The call has returned or raised: its locals are gone, the caller goes on
ReturnToCaller ==
    /\ pc = "done"
    /\ pc' = "idle"
    /\ net' = NoNet /\ sent' = NoSent /\ outcome' = NoOutcome /\ retval' = NoneVal
    /\ fh' = "none" /\ monitor' = NoMonitor /\ progress' = NoProgress
    /\ result' = EmptyObj /\ reads' = {} /\ posts' = 0
    /\ UNCHANGED <<env, client, op>>

Next ==
    \/ SetEnv
    \/ DelEnv
    \/ ClientInit
    \/ Request
    \/ RequestJson
    \/ PushFileOpen
    \/ PushFileEncode
    \/ StreamChunk
    \/ PostFail
    \/ PostResponse
    \/ PushFileResult
    \/ ReturnToCaller

Spec == Init /\ [][Next]_vars

(***************************************************************************)
(* Properties.                                                             *)
(***************************************************************************)
\* The collaborator's exchange failed with a store client error.
StoreErrorRaised == net.k = "raise" /\ IsInstance(net.type, "StoreClientError")

\* C1: in request, request_json and push_file alike, whenever the network
\* exchange fails with a store/transport error the caller observes a
\* CommandError, never the collaborator's own error type.
C1_StoreErrorsNormalized ==
    (pc = "done" /\ StoreErrorRaised) =>
        (outcome.kind = "raise" /\ outcome.type = "CommandError")

\* C2: request turns a store client error of the session into a CommandError
\* carrying the original message, lets any other error through unchanged, and
\* returns the session's response when there is one.
C2_RequestDelegates ==
    (pc = "done" /\ op = "request") =>
        /\ StoreErrorRaised =>
              outcome = [kind |-> "raise", type |-> "CommandError", msg |-> <<net.msg>>]
        /\ (net.k = "raise" /\ ~StoreErrorRaised) =>
              outcome = [kind |-> "raise", type |-> net.type, msg |-> <<net.msg>>]
        /\ net.k = "response" =>
              /\ outcome.kind = "return"
              /\ retval.t = "Response"
              /\ retval.status_code = net.status_code
              /\ retval.body = net.body

C2_Witness ==
    /\ pc = "done" /\ op = "request"
    /\ net.k = "raise" /\ net.type = "StoreClientErrorSubclass"
    /\ outcome.type = "CommandError" /\ outcome.msg = <<"401 unauthorized">>

\* C3: request_json on a response whose body is not JSON raises a CommandError
\* whose message includes the response's status code, never the parse error;
\* on a body that is JSON it returns the decoded mapping.
C3_RequestJsonParse ==
    (pc = "done" /\ op = "request_json" /\ net.k = "response") =>
        /\ ~net.body.valid =>
              /\ outcome.kind = "raise"
              /\ outcome.type = "CommandError"
              /\ \E i \in 1..Len(outcome.msg) : outcome.msg[i] = ToString(net.status_code)
        /\ net.body.valid =>
              /\ outcome.kind = "return"
              /\ retval.t = "dict"
              /\ DOMAIN retval.d = DOMAIN net.body.obj
              /\ \A k \in DOMAIN retval.d : retval.d[k] = PyValue(net.body.obj[k])

C3_Witness ==
    /\ pc = "done" /\ op = "request_json"
    /\ net.k = "response" /\ ~net.body.valid /\ net.status_code = 404
    /\ outcome.type = "CommandError"
    /\ outcome.msg[2] = "404"

\* C4: push_file returns exactly the upload_id of a parsed response whose
\* successful field is true, whatever the upload_id.
C4_PushReturnsUploadId ==
    ( /\ pc = "done" /\ op = "push_file"
      /\ "successful" \in DOMAIN result /\ result["successful"] = "True"
      /\ "upload_id" \in DOMAIN result ) =>
        /\ outcome.kind = "return"
        /\ retval.t = "str"
        /\ retval.s = result["upload_id"]

C4_Witness ==
    /\ pc = "done" /\ op = "push_file"
    /\ "successful" \in DOMAIN result /\ result["successful"] = "True"
    /\ outcome.kind = "return"
    /\ retval.s = "'abc123'"

\* C5: push_file on a parsed response whose successful field is false raises a
\* CommandError whose message holds every field of the response, returns
\* nothing and never subscripts upload_id, present or not.
C5_PushRejected ==
    ( /\ pc = "done" /\ op = "push_file"
      /\ "successful" \in DOMAIN result /\ result["successful"] = "False" ) =>
        /\ outcome.kind = "raise"
        /\ outcome.type = "CommandError"
        /\ \A k \in DOMAIN result :
              \E i \in 1..(Len(outcome.msg) - 2) :
                  /\ outcome.msg[i] = "'" \o k \o "'"
                  /\ outcome.msg[i + 2] = result[k]
        /\ retval.t = "None"
        /\ "upload_id" \notin reads

C5_Witness ==
    /\ pc = "done" /\ op = "push_file"
    /\ DOMAIN result = {"successful"} /\ result["successful"] = "False"
    /\ outcome.type = "CommandError"

\* C6: the file is open from the moment push_file opened it until the body
\* has been streamed, and closed on every way out of the call after that:
\* normal return, rejected upload, exception while encoding or transferring.
C6_FileHandleScoped ==
    /\ pc \in {"opened", "streaming"} => fh = "open"
    /\ pc = "opened" => posts = 0
    /\ pc \in {"parsed", "done", "idle"} => fh # "open"
    /\ (pc \in {"parsed", "done"} /\ op = "push_file") =>
          \/ fh = "closed"
          \/ /\ fh = "none"
             /\ outcome.type \in {"FileNotFoundError", "PermissionError"}

C6_Witness ==
    /\ pc = "done" /\ op = "push_file"
    /\ StoreErrorRaised
    /\ monitor.bytes_read > 0
    /\ fh = "closed"

C8_UserAgentPerRequest ==
    sent # NoSent => sent.user_agent = BuildUserAgent(env)

\* C8 as amended: the POST of push_file carries the user agent of the
\* environment at the time of the call; request and request_json carry the
\* user agent the Client computed when it was constructed, which later
\* changes of the environment leave as it was.
C8_UserAgentAmended ==
    /\ [](/\ (sent # NoSent /\ op = "push_file") =>
                sent.user_agent = BuildUserAgent(env)
          /\ (sent # NoSent /\ op \in {"request", "request_json"}) =>
                sent.user_agent = client.user_agent)
    /\ [][/\ client' # client => client'.user_agent = BuildUserAgent(env)
          /\ env' # env => client' = client]_vars

C8_Witness ==
    /\ pc = "done" /\ op = "request"
    /\ sent.user_agent = client.user_agent
    /\ sent.user_agent # BuildUserAgent(env)

\* Some variable's name is a recognized prefix followed by anything.
NameBeginsWithPrefix(e) ==
    \E k \in DOMAIN e : \E p \in {TRAVIS, AUTOPKGTEST_TMP} : \E n \in 0..Len(k) :
        k = p \o SubSeq(k, Len(k) - n + 1, Len(k))

\* The piece of a user agent between the version and the platform.
Marker(ua) == ua[3]

\* C9: the user agent build_user_agent returns has " (testing) " between the
\* version and the platform exactly when some variable name of the
\* environment at call time begins with TRAVIS or AUTOPKGTEST_TMP, and a
\* single space otherwise; values and prefixes inside a name do not count.
C9_TestingMarker ==
    /\ []((sent # NoSent /\ op = "push_file") =>
            /\ Marker(sent.user_agent) \in {" (testing) ", " "}
            /\ Marker(sent.user_agent) = " (testing) " <=> NameBeginsWithPrefix(env))
    /\ [][client' # client =>
            /\ Marker(client'.user_agent) \in {" (testing) ", " "}
            /\ Marker(client'.user_agent) = " (testing) " <=> NameBeginsWithPrefix(env)]_vars

C9_Witness ==
    /\ op = "push_file" /\ pc = "streaming"
    /\ Marker(sent.user_agent) = " (testing) "
    /\ \E k \in DOMAIN env : k = TRAVIS \o <<"_", "J">>

\* Steps of a push_file call.
PushFileSteps ==
    { <<"idle", "opened">>, <<"idle", "done">>, <<"opened", "streaming">>,
      <<"opened", "done">>, <<"streaming", "parsed">>, <<"streaming", "done">>,
      <<"parsed", "done">>, <<"done", "idle">> }

\* C10: a push_file call goes open file, stream and upload, parse response,
\* then succeeds or fails once: at most one POST, to
\* <storage_base_url>/unscanned-upload/ and only with the file opened; a failed
\* open raises the filesystem error with no POST; a failure ends the call with
\* no retry; nothing of a call is left when the next one starts.
C10_PushFileStateMachine ==
    /\ [](/\ posts <= 1
          /\ posts = 1 =>
                /\ fh # "none"
                /\ sent.method = "POST"
                /\ sent.url = client.storage_base_url \o <<"/unscanned-upload/">>
          /\ (op = "push_file" /\ fh = "none" /\ pc = "done") =>
                /\ outcome.kind = "raise"
                /\ outcome.type \in {"FileNotFoundError", "PermissionError"}
                /\ posts = 0 /\ sent = NoSent
          /\ outcome.kind = "raise" => pc = "done"
          /\ pc = "done" => outcome.kind \in {"return", "raise"}
          /\ (op = "push_file" /\ outcome.kind = "return") =>
                (posts = 1 /\ fh = "closed" /\ net.k = "response")
          /\ pc = "idle" => NoCall)
    /\ [][/\ (op' = "push_file" /\ pc' # pc) => <<pc, pc'>> \in PushFileSteps
          /\ outcome.kind = "raise" => (pc' = "idle" /\ posts' = 0)]_vars

C10_Witness ==
    /\ pc = "done" /\ op = "push_file"
    /\ net.k = "raise" /\ outcome.kind = "raise"
    /\ posts = 1

====
